---- MODULE Spec2Model ----
(***************************************************************************)
(* Model of the identity store of the face-recognition service             *)
(* (ml_service/face_processor.py, class FaceProcessor) and of the handler  *)
(* threads of ml_service/face_recognition_service.py that share it.        *)
(*                                                                         *)
(* Strings are sequences of one-character strings, so that strip() and     *)
(* upper() are computed and not assumed.  An embedding is a 2-dimensional  *)
(* vector of rationals and its arithmetic is exact.                        *)
(***************************************************************************)
EXTENDS Integers, Sequences, FiniteSets, TLC

VARIABLES
    known_student_ids,      \* FaceProcessor.known_student_ids
    known_face_names,       \* FaceProcessor.known_face_names
    known_face_encodings,   \* FaceProcessor.known_face_encodings
    encodings_file,         \* content of data/face_encodings.pkl
    metadata_file,          \* content of data/student_metadata.json
    io_faults,              \* how many file operations have failed so far
    threads,                \* the handler threads at work on the shared lists
    last                    \* the call that produced this state and its result

store == <<known_student_ids, known_face_names, known_face_encodings>>
files == <<encodings_file, metadata_file>>
vars == <<known_student_ids, known_face_names, known_face_encodings,
          encodings_file, metadata_file, io_faults, threads, last>>

----------------------------------------------------------------------------
(* Bounds of the model and constants of the program *)

MaxFaults == 1

MinIdLen == 6
MaxIdLen_sixteen == MinIdLen + 10
MaxIdLen == 15
MinImages == 2
MinEmbeddings_one == MinImages - 1
MinEmbeddings == 2

----------------------------------------------------------------------------
(* Strings *)

Whitespace == {" ", "\t", "\n"}

LowerToUpper ==
    [c \in {"a", "b", "i", "l", "m", "o", "t"} |->
        CASE c = "a" -> "A" [] c = "b" -> "B" [] c = "i" -> "I"
          [] c = "l" -> "L" [] c = "m" -> "M" [] c = "o" -> "O"
          [] c = "t" -> "T"]

\* str.upper(), one character
UpperChar(c) == IF c \in DOMAIN LowerToUpper THEN LowerToUpper[c] ELSE c

\* str.upper()
upper(s) == [i \in 1..Len(s) |-> UpperChar(s[i])]

RECURSIVE lstrip(_)
lstrip(s) ==
    IF s # <<>> /\ Head(s) \in Whitespace THEN lstrip(Tail(s)) ELSE s

RECURSIVE rstrip(_)
rstrip(s) ==
    IF s # <<>> /\ s[Len(s)] \in Whitespace
    THEN rstrip(SubSeq(s, 1, Len(s) - 1))
    ELSE s

\* str.strip()
strip(s) == rstrip(lstrip(s))

\* ValidationUtils.validate_student_id
validate_student_id(student_id) ==
    IF student_id = <<>>
    THEN FALSE
    ELSE LET sid == upper(strip(student_id))
         IN  ~(Len(sid) < MinIdLen \/ Len(sid) > MaxIdLen)

----------------------------------------------------------------------------
(* Numbers and vectors *)

\* Embeddings are 2-dimensional vectors of rationals, [x, y, den] for
\* (x/den, y/den) in lowest terms, and reals are rationals [num, den]: the
\* embeddings the model feeds in are chosen so that every norm and distance
\* the program takes is rational, and the arithmetic below is then exact.

Abs(n) == IF n < 0 THEN -n ELSE n

RECURSIVE GCD(_, _)
GCD(a, b) == IF b = 0 THEN a ELSE GCD(b, a % b)

\* the rational num/den (den # 0) in lowest terms, den > 0
Q(num, den) ==
    LET g == GCD(Abs(num), Abs(den))
        sign == IF den < 0 THEN -1 ELSE 1
    IN  [num |-> sign * (num \div g), den |-> sign * (den \div g)]

QLess(a, b) == a.num * b.den < b.num * a.den

QSub(a, b) == Q(a.num * b.den - b.num * a.den, a.den * b.den)

QMul(a, b) == Q(a.num * b.num, a.den * b.den)

QDiv(a, b) == Q(a.num * b.den, a.den * b.num)

QAdd(a, b) == Q(a.num * b.den + b.num * a.den, a.den * b.den)

QLeq(a, b) == ~QLess(b, a)

\* min(a, b) of two numbers
QMin(a, b) == IF QLess(b, a) THEN b ELSE a

QAbs(a) == Q(Abs(a.num), a.den)

Zero == Q(0, 1)
One == Q(1, 1)

\* the square root of a perfect square
ISqrt(n) == CHOOSE r \in 0..n : r * r = n

\* the square root of a rational that is a square
QSqrt(a) == Q(ISqrt(a.num), ISqrt(a.den))

\* the vector (x/den, y/den) in lowest terms
Rational(x, y, den) ==
    LET g == GCD(GCD(Abs(x), Abs(y)), den)
    IN  [x |-> x \div g, y |-> y \div g, den |-> den \div g]

RECURSIVE SumX(_)
SumX(vs) == IF vs = <<>> THEN 0 ELSE Head(vs).x + SumX(Tail(vs))

RECURSIVE SumY(_)
SumY(vs) == IF vs = <<>> THEN 0 ELSE Head(vs).y + SumY(Tail(vs))

\* np.mean(valid_embeddings, axis=0), of embeddings as the embedder returns
\* them (den = 1)
mean(vs) == Rational(SumX(vs), SumY(vs), Len(vs))

\* np.linalg.norm
norm(v) == QSqrt(Q(v.x * v.x + v.y * v.y, v.den * v.den))

\* np.dot
dot(v1, v2) == Q(v1.x * v2.x + v1.y * v2.y, v1.den * v2.den)

\* MathUtils.normalize_vector
normalize_vector(v) ==
    LET n == norm(v)
    IN  IF n = Zero
        THEN v
        ELSE Rational(v.x * n.den, v.y * n.den, v.den * n.num)

\* MathUtils.calculate_euclidean_distance
calculate_euclidean_distance(vec1, vec2) ==
    norm(Rational(vec1.x * vec2.den - vec2.x * vec1.den,
                  vec1.y * vec2.den - vec2.y * vec1.den,
                  vec1.den * vec2.den))

calculate_cosine_similarity_unscaled(vec1, vec2) == dot(vec1, vec2)

\* MathUtils.calculate_cosine_similarity
calculate_cosine_similarity(vec1, vec2) ==
    LET dot_product == dot(vec1, vec2)
        norms == QMul(norm(vec1), norm(vec2))
    IN  IF norms = Zero
        THEN Zero
        ELSE QDiv(dot_product, norms)

----------------------------------------------------------------------------
(* Inputs *)

\* student ids a caller may send
RawIds ==
    { <<>>,
      <<"m", "i", "t", "0", "1">>,
      <<"m", "i", "t", "0", "0", "1">>,
      <<" ", "M", "I", "T", "0", "0", "1", "\t">>,
      <<"M", "i", "t", "0", "0", "2">> }

\* What an image is, by what the decoder, the detector and the embedder make of
\* it: not decodable, no face passes the detection filter, the embedder returns
\* nothing for the best face, or the best face has an embedding.
ImageKinds == {"corrupt", "blank", "blurry", "faceA", "faceB"}

\* ValidationUtils.validate_image_data / ImageUtils.decode_base64_to_image
decodes(img) == img # "corrupt"

\* FaceProcessor.detect_faces returns a non-empty list
has_face(img) == img \in {"blurry", "faceA", "faceB"}

\* Python's None where an embedding is expected (no vector has den = 0)
NoEmbedding == [x |-> 0, y |-> 0, den |-> 0]

\* FaceProcessor.get_face_embedding of the best face
get_face_embedding(img) ==
    CASE img = "faceA" -> Rational(3, 4, 1)
      [] img = "faceB" -> Rational(-3, -4, 1)
      [] OTHER -> NoEmbedding

Al == <<" ", "A", "l", " ">>
Bo == <<"B", "o">>

\* a name of whitespace only: a non-empty string, and so truthy
Blank == <<" ", "\t">>

\* the names and sample images a caller may send with a student id: no name,
\* no image, one image, images that yield fewer than two embeddings, and two
\* enrolments that differ in name and in the embedding they yield
Enrolments ==
    { [name |-> <<>>, face_images |-> <<"faceA", "faceA">>],
      [name |-> Al, face_images |-> <<>>],
      [name |-> Al, face_images |-> <<"faceA">>],
      [name |-> Al, face_images |-> <<"faceA", "corrupt">>],
      [name |-> Bo, face_images |-> <<"blank", "faceA", "blurry">>],
      [name |-> Al, face_images |-> <<"faceA", "faceA">>],
      [name |-> Bo, face_images |-> <<"faceB", "blank", "faceA">>] }

----------------------------------------------------------------------------
(* Files *)

Absent == [state |-> "absent", encodings |-> <<>>, names |-> <<>>,
           student_ids |-> <<>>, total_students |-> 0]

\* a file opened for writing and not completely written
Truncated == [state |-> "truncated", encodings |-> <<>>, names |-> <<>>,
              student_ids |-> <<>>, total_students |-> 0]

\* encodings_data of save_student_database
encodings_data(ids, names, encs) ==
    [state |-> "written", encodings |-> encs, names |-> names,
     student_ids |-> ids, total_students |-> Len(encs)]

Min(a, b) == IF a < b THEN a ELSE b

\* zip(ids, names) as a sequence of records
zip_students(ids, names) ==
    [i \in 1..Min(Len(ids), Len(names)) |-> [student_id |-> ids[i], name |-> names[i]]]

NoMetadata == [state |-> "absent", total_students |-> 0, students |-> <<>>]

TruncatedMetadata == [state |-> "truncated", total_students |-> 0, students |-> <<>>]

\* metadata of save_student_database
metadata(ids, names, encs) ==
    [state |-> "written", total_students |-> Len(encs),
     students |-> zip_students(ids, names)]

\* What the file system does to one save: each of the two files is written,
\* cannot be opened for writing, or fails after it was opened (and truncated).
WriteOutcomes == {"ok", "open_fails", "write_fails"}

\* the file after open(path, 'w') and a dump of `content`; `cut` is the file
\* that was opened, and so emptied, and then not written to the end
write_file(old, content, cut, outcome) ==
    CASE outcome = "ok" -> content
      [] outcome = "open_fails" -> old
      [] outcome = "write_fails" -> cut

\* one save as the file system lets it go: the second file is only reached
\* when the first was written
SaveOutcomes ==
    {[enc |-> "ok", meta |-> m] : m \in WriteOutcomes}
        \cup {[enc |-> e, meta |-> "ok"] : e \in WriteOutcomes \ {"ok"}}

NoFault == [enc |-> "ok", meta |-> "ok"]

\* the file system fails at most MaxFaults times in one run of the model
Faulty(failed) ==
    IF failed
    THEN io_faults < MaxFaults /\ io_faults' = io_faults + 1
    ELSE io_faults' = io_faults

----------------------------------------------------------------------------
(* FaceProcessor *)

Range(s) == {s[i] : i \in 1..Len(s)}

\* list.index(x): the first position of x
index(s, x) == CHOOSE i \in 1..Len(s) : s[i] = x /\ \A j \in 1..(i - 1) : s[j] # x

\* list.pop(idx)
pop(s, idx) == SubSeq(s, 1, idx - 1) \o SubSeq(s, idx + 1, Len(s))

\* s[idx] = x
assign(s, idx, x) == [s EXCEPT ![idx] = x]

\* the record of a call: the operation, its arguments, the value returned
\* and the return statement or branch that was reached
Call(op, student_id, name, face_images, ret, why) ==
    [op |-> op, student_id |-> student_id, name |-> name,
     face_images |-> face_images, ret |-> ret, why |-> why]

Called(op, student_id, name, face_images, ret, why) ==
    last' = Call(op, student_id, name, face_images, ret, why)

register_key_as_typed(student_id) == strip(student_id)

\* student_id.strip().upper() of register_student
register_key(student_id) == upper(strip(student_id))

\* student_id.strip().upper() of delete_student
delete_key(student_id) == upper(strip(student_id))

save_student_database_reports_success(ids, names, encs, out) ==
    [ret |-> TRUE,
     encodings_file |-> write_file(encodings_file, encodings_data(ids, names, encs),
                                   Truncated, out.enc),
     metadata_file |-> metadata_file]

\* FaceProcessor.save_student_database on the lists given: the two files
\* afterwards and the value returned
save_student_database(ids, names, encs, out) ==
    LET enc == write_file(encodings_file, encodings_data(ids, names, encs),
                          Truncated, out.enc)
    IN  IF out.enc # "ok"
        THEN [ret |-> FALSE, encodings_file |-> enc, metadata_file |-> metadata_file]
        ELSE [ret |-> TRUE, encodings_file |-> enc,
              metadata_file |-> write_file(metadata_file, metadata(ids, names, encs),
                                           TruncatedMetadata, out.meta)]

\* the loop of register_student over face_images: the embeddings kept
RECURSIVE valid_embeddings(_)
valid_embeddings(face_images) ==
    IF face_images = <<>>
    THEN <<>>
    ELSE LET img == Head(face_images)
             rest == valid_embeddings(Tail(face_images))
         IN  IF ~decodes(img) THEN rest
             ELSE IF ~has_face(img) THEN rest
             ELSE IF get_face_embedding(img) = NoEmbedding THEN rest
             ELSE <<get_face_embedding(img)>> \o rest

commit_student_appends(ids, names, encs, student_id, name, avg_embedding) ==
    [ids |-> Append(ids, student_id), names |-> Append(names, name),
     encs |-> Append(encs, avg_embedding), raised |-> FALSE, branch |-> "appended"]

\* the lists after the update-or-append of register_student; raised is TRUE
\* when an index assignment raised IndexError
commit_student(ids, names, encs, student_id, name, avg_embedding) ==
    IF student_id \in Range(ids)
    THEN LET idx == index(ids, student_id)
         IN  IF idx > Len(encs)
             THEN [ids |-> ids, names |-> names, encs |-> encs,
                   raised |-> TRUE, branch |-> "updated"]
             ELSE IF idx > Len(names)
             THEN [ids |-> ids, names |-> names,
                   encs |-> assign(encs, idx, avg_embedding),
                   raised |-> TRUE, branch |-> "updated"]
             ELSE [ids |-> ids, names |-> assign(names, idx, name),
                   encs |-> assign(encs, idx, avg_embedding),
                   raised |-> FALSE, branch |-> "updated"]
    ELSE [ids |-> Append(ids, student_id), names |-> Append(names, name),
          encs |-> Append(encs, avg_embedding), raised |-> FALSE, branch |-> "appended"]

\* FaceProcessor.register_student
register_student(student_id, name, face_images) ==
    IF ~validate_student_id(student_id)
    THEN Called("register", student_id, name, face_images, FALSE, "invalid_id")
         /\ UNCHANGED <<store, files, io_faults>>
    ELSE IF name = <<>>
    THEN Called("register", student_id, name, face_images, FALSE, "invalid_name")
         /\ UNCHANGED <<store, files, io_faults>>
    ELSE IF face_images = <<>> \/ Len(face_images) < MinImages
    THEN Called("register", student_id, name, face_images, FALSE, "few_images")
         /\ UNCHANGED <<store, files, io_faults>>
    ELSE LET sid == register_key(student_id)
             nm == strip(name)
             valid == valid_embeddings(face_images)
         IN  IF Len(valid) < MinEmbeddings
             THEN Called("register", student_id, name, face_images, FALSE, "few_embeddings")
                  /\ UNCHANGED <<store, files, io_faults>>
             ELSE LET avg_embedding == normalize_vector(mean(valid))
                      c == commit_student(known_student_ids, known_face_names,
                                          known_face_encodings, sid, nm, avg_embedding)
                  IN  /\ known_student_ids' = c.ids
                      /\ known_face_names' = c.names
                      /\ known_face_encodings' = c.encs
                      /\ IF c.raised
                         THEN Called("register", student_id, name, face_images, FALSE, "raised")
                              /\ UNCHANGED <<files, io_faults>>
                         ELSE \E out \in SaveOutcomes :
                                LET s == save_student_database(c.ids, c.names, c.encs, out)
                                IN  /\ Faulty(out # NoFault)
                                    /\ encodings_file' = s.encodings_file
                                    /\ metadata_file' = s.metadata_file
                                    /\ Called("register", student_id, name, face_images,
                                              s.ret, c.branch)

remove_student_keeps_name(ids, names, encs, idx) ==
    [ids |-> pop(ids, idx), names |-> names, encs |-> pop(encs, idx), raised |-> FALSE]

\* the lists after the three pops of delete_student; raised is TRUE when a pop
\* raised IndexError
remove_student(ids, names, encs, idx) ==
    IF idx > Len(names)
    THEN [ids |-> pop(ids, idx), names |-> names, encs |-> encs, raised |-> TRUE]
    ELSE IF idx > Len(encs)
    THEN [ids |-> pop(ids, idx), names |-> pop(names, idx), encs |-> encs,
          raised |-> TRUE]
    ELSE [ids |-> pop(ids, idx), names |-> pop(names, idx), encs |-> pop(encs, idx),
          raised |-> FALSE]

delete_student_pops_last(student_id) ==
    /\ known_student_ids # <<>>
    /\ known_student_ids' = pop(known_student_ids, Len(known_student_ids))
    /\ known_face_names' = pop(known_face_names, Len(known_face_names))
    /\ known_face_encodings' = pop(known_face_encodings, Len(known_face_encodings))
    /\ Called("delete", student_id, <<>>, <<>>, FALSE, "not_found")
    /\ UNCHANGED <<files, io_faults>>

\* FaceProcessor.delete_student
delete_student(student_id) ==
    LET sid == delete_key(student_id)
    IN  IF sid \in Range(known_student_ids)
        THEN LET idx == index(known_student_ids, sid)
                 r == remove_student(known_student_ids, known_face_names,
                                     known_face_encodings, idx)
             IN  /\ known_student_ids' = r.ids
                 /\ known_face_names' = r.names
                 /\ known_face_encodings' = r.encs
                 /\ IF r.raised
                    THEN Called("delete", student_id, <<>>, <<>>, FALSE, "raised")
                         /\ UNCHANGED <<files, io_faults>>
                    ELSE \E out \in SaveOutcomes :
                           LET s == save_student_database(r.ids, r.names, r.encs, out)
                           IN  /\ Faulty(out # NoFault)
                               /\ encodings_file' = s.encodings_file
                               /\ metadata_file' = s.metadata_file
                               /\ Called("delete", student_id, <<>>, <<>>, s.ret, "removed")
        ELSE Called("delete", student_id, <<>>, <<>>, FALSE, "not_found")
             /\ UNCHANGED <<store, files, io_faults>>

\* FaceProcessor.save_student_database, called on its own
Save ==
    \E out \in SaveOutcomes :
      LET s == save_student_database(known_student_ids, known_face_names,
                                     known_face_encodings, out)
      IN  /\ Faulty(out # NoFault)
          /\ encodings_file' = s.encodings_file
          /\ metadata_file' = s.metadata_file
          /\ Called("save", <<>>, <<>>, <<>>, s.ret, IF s.ret THEN "saved" ELSE "raised")
          /\ UNCHANGED store

load_student_database_drops_names(ids, names, encs, readable) ==
    IF encodings_file.state = "absent"
    THEN [ret |-> TRUE, why |-> "no_file", ids |-> ids, names |-> names, encs |-> encs]
    ELSE IF ~readable \/ encodings_file.state # "written"
    THEN [ret |-> FALSE, why |-> "raised", ids |-> ids, names |-> names, encs |-> encs]
    ELSE [ret |-> TRUE, why |-> "loaded", ids |-> encodings_file.student_ids,
          names |-> [i \in DOMAIN encodings_file.names |-> <<>>],
          encs |-> encodings_file.encodings]

\* FaceProcessor.load_student_database from the lists given: the lists
\* afterwards and the value returned.  `readable` is FALSE when opening or
\* reading the file raises.
load_student_database(ids, names, encs, readable) ==
    IF encodings_file.state = "absent"
    THEN [ret |-> TRUE, why |-> "no_file", ids |-> ids, names |-> names, encs |-> encs]
    ELSE IF ~readable \/ encodings_file.state # "written"
    THEN [ret |-> FALSE, why |-> "raised", ids |-> ids, names |-> names, encs |-> encs]
    ELSE [ret |-> TRUE, why |-> "loaded", ids |-> encodings_file.student_ids,
          names |-> encodings_file.names, encs |-> encodings_file.encodings]

Load ==
    \E readable \in BOOLEAN :
      LET l == load_student_database(known_student_ids, known_face_names,
                                     known_face_encodings, readable)
      IN  /\ Faulty(~readable)
          /\ known_student_ids' = l.ids
          /\ known_face_names' = l.names
          /\ known_face_encodings' = l.encs
          /\ Called("load", <<>>, <<>>, <<>>, l.ret, l.why)
          /\ UNCHANGED files

\* FaceProcessor.__init__ of a new process over the files the last one left
Restart ==
    \E readable \in BOOLEAN :
      LET l == load_student_database(<<>>, <<>>, <<>>, readable)
      IN  /\ Faulty(~readable)
          /\ known_student_ids' = l.ids
          /\ known_face_names' = l.names
          /\ known_face_encodings' = l.encs
          /\ Called("init", <<>>, <<>>, <<>>, l.ret, l.why)
          /\ UNCHANGED files

\* FaceProcessor.get_registered_students
get_registered_students == zip_students(known_student_ids, known_face_names)

Register ==
    \E student_id \in RawIds, e \in Enrolments :
      register_student(student_id, e.name, e.face_images)

Delete == \E student_id \in RawIds : delete_student(student_id)

Init ==
    /\ known_student_ids = <<>>
    /\ known_face_names = <<>>
    /\ known_face_encodings = <<>>
    /\ encodings_file = Absent
    /\ metadata_file = NoMetadata
    /\ io_faults = 0
    /\ threads = <<>>
    /\ last = Call("init", <<>>, <<>>, <<>>, TRUE, "no_file")

\* one call at a time, each run to its end
Next == (Register \/ Delete \/ Save \/ Load \/ Restart) /\ UNCHANGED threads

Spec == Init /\ [][Next]_vars

----------------------------------------------------------------------------
(* FaceProcessor.recognize_face *)

DefaultThreshold == Q(3, 5)

\* np.argmin: the first position of the least number
argmin(qs) ==
    CHOOSE i \in 1..Len(qs) :
        /\ \A j \in 1..Len(qs) : ~QLess(qs[j], qs[i])
        /\ \A j \in 1..(i - 1) : QLess(qs[i], qs[j])

\* np.argmax: the first position of the greatest number
argmax(qs) ==
    CHOOSE i \in 1..Len(qs) :
        /\ \A j \in 1..Len(qs) : ~QLess(qs[i], qs[j])
        /\ \A j \in 1..(i - 1) : QLess(qs[j], qs[i])

best_match_distance_first(distances, similarities, threshold) ==
    LET min_distance_idx == argmin(distances)
        max_similarity_idx == argmax(similarities)
        min_distance == distances[min_distance_idx]
        max_similarity == similarities[max_similarity_idx]
    IN  IF QLess(min_distance, threshold)
        THEN [accepted |-> TRUE, best_idx |-> min_distance_idx,
              confidence |-> QSub(One, QDiv(min_distance, threshold)),
              distance |-> min_distance, branch |-> "distance"]
        ELSE IF QLess(QSub(One, threshold), max_similarity)
        THEN [accepted |-> TRUE, best_idx |-> max_similarity_idx,
              confidence |-> max_similarity, distance |-> distances[max_similarity_idx],
              branch |-> "similarity"]
        ELSE [accepted |-> FALSE, best_idx |-> 0, confidence |-> Zero,
              distance |-> min_distance, branch |-> "rejected"]

\* the choice recognize_face makes once it has the distances and the
\* similarities (both non-empty)
best_match(distances, similarities, threshold) ==
    LET min_distance_idx == argmin(distances)
        max_similarity_idx == argmax(similarities)
        min_distance == distances[min_distance_idx]
        max_similarity == similarities[max_similarity_idx]
    IN  IF QLess(QSub(One, threshold), max_similarity)
        THEN [accepted |-> TRUE, best_idx |-> max_similarity_idx,
              confidence |-> max_similarity, distance |-> distances[max_similarity_idx],
              branch |-> "similarity"]
        ELSE IF QLess(min_distance, threshold)
        THEN [accepted |-> TRUE, best_idx |-> min_distance_idx,
              confidence |-> QSub(One, QDiv(min_distance, threshold)),
              distance |-> min_distance, branch |-> "distance"]
        ELSE [accepted |-> FALSE, best_idx |-> 0, confidence |-> Zero,
              distance |-> min_distance, branch |-> "rejected"]

\* Python's None where student_info is expected
NoStudent ==
    [student_id |-> <<>>, name |-> <<>>, confidence |-> Zero,
     similarity_score |-> Zero, distance_score |-> Zero]

\* (None, distance) as recognize_face returns it; branch names the return
\* statement reached and best_idx the record chosen (0: none)
no_match(distance, branch) ==
    [found |-> FALSE, student_info |-> NoStudent, distance |-> distance,
     best_idx |-> 0, branch |-> branch]

empty_registry_result_zero == no_match(Zero, "empty")

\* what recognize_face returns when no student is registered
empty_registry_result == no_match(One, "empty")

\* FaceProcessor.recognize_face on the lists in memory
recognize_face(face_embedding, threshold) ==
    IF Len(known_face_encodings) = 0
    THEN empty_registry_result
    ELSE LET distances ==
                 [i \in DOMAIN known_face_encodings |->
                     calculate_euclidean_distance(face_embedding, known_face_encodings[i])]
             similarities ==
                 [i \in DOMAIN known_face_encodings |->
                     calculate_cosine_similarity(face_embedding, known_face_encodings[i])]
             m == best_match(distances, similarities, threshold)
         IN  IF ~m.accepted
             THEN no_match(m.distance, "rejected")
             ELSE IF m.best_idx > Len(known_student_ids) \/ m.best_idx > Len(known_face_names)
             THEN no_match(One, "raised")
             ELSE [found |-> TRUE,
                   student_info |->
                       [student_id |-> known_student_ids[m.best_idx],
                        name |-> known_face_names[m.best_idx],
                        confidence |-> m.confidence,
                        similarity_score |-> similarities[m.best_idx],
                        distance_score |-> distances[m.best_idx]],
                   distance |-> distances[m.best_idx],
                   best_idx |-> m.best_idx, branch |-> m.branch]

----------------------------------------------------------------------------
(* Handler threads: socketio runs with async_mode='threading', every request
   has a thread of its own and FaceProcessor takes no lock.  A step of a
   thread is one operation on a shared list or file; what a handler does
   before it first touches the lists (validation, detection, embedding,
   averaging) is local and has happened when the thread starts. *)

Threads == {1, 2}

MIT001 == <<"M", "I", "T", "0", "0", "1">>
MIT002 == <<"M", "I", "T", "0", "0", "2">>
MIT003 == <<"M", "I", "T", "0", "0", "3">>
MIT004 == <<"M", "I", "T", "0", "0", "4">>

EmbU == Rational(3, 4, 5)
EmbV == Rational(-3, 4, 5)
EmbW == Rational(3, -4, 5)
EmbZ == Rational(0, 0, 1)

\* the store the threads start from, as loaded from its snapshot
InitialIds == <<MIT001, MIT002>>
InitialNames == <<strip(Al), strip(Bo)>>
InitialEncodings == <<EmbU, EmbV>>

Request(op, student_id, name, embedding) ==
    [op |-> op, student_id |-> student_id, name |-> name, embedding |-> embedding,
     threshold |-> DefaultThreshold, pc |-> "start", idx |-> 0, total |-> 0,
     encodings |-> <<>>, names |-> <<>>, distances |-> <<>>, similarities |-> <<>>,
     ret |-> FALSE, raised |-> FALSE, confidence |-> Zero,
     match_id |-> <<>>, match_name |-> <<>>]

\* the requests that may be in flight together: enrolments of new ids, a
\* re-enrolment, deletions and matches
ConcurrentRequests ==
    { Request("register", MIT003, <<"C", "y">>, EmbW),
      Request("register", MIT004, <<"D", "i">>, EmbZ),
      Request("register", MIT001, <<"E", "d">>, EmbW),
      Request("delete", MIT001, <<>>, NoEmbedding),
      Request("delete", MIT002, <<>>, NoEmbedding),
      Request("recognize", <<>>, <<>>, EmbU),
      Request("recognize", <<>>, <<>>, EmbV) }

Goto(t, label) == threads' = [threads EXCEPT ![t].pc = label]

\* the except clause of a method: nothing is undone, False or (None, 1.0) is
\* returned
Raise(t) == threads' = [threads EXCEPT ![t].pc = "done", ![t].raised = TRUE,
                                       ![t].ret = FALSE]

\* register_student from the membership test to the last append
RegisterStep(t) ==
    LET th == threads[t]
    IN  /\ th.op = "register"
        /\ \/ /\ th.pc = "start"
              /\ Goto(t, IF th.student_id \in Range(known_student_ids)
                         THEN "index" ELSE "append_encoding")
              /\ UNCHANGED <<store, files>>
           \/ /\ th.pc = "index"
              /\ IF th.student_id \in Range(known_student_ids)
                 THEN threads' = [threads EXCEPT
                          ![t].idx = index(known_student_ids, th.student_id),
                          ![t].pc = "set_encoding"]
                 ELSE Raise(t)
              /\ UNCHANGED <<store, files>>
           \/ /\ th.pc = "set_encoding"
              /\ IF th.idx <= Len(known_face_encodings)
                 THEN /\ known_face_encodings' =
                            assign(known_face_encodings, th.idx, th.embedding)
                      /\ Goto(t, "set_name")
                 ELSE Raise(t) /\ UNCHANGED known_face_encodings
              /\ UNCHANGED <<known_student_ids, known_face_names, files>>
           \/ /\ th.pc = "set_name"
              /\ IF th.idx <= Len(known_face_names)
                 THEN /\ known_face_names' = assign(known_face_names, th.idx, th.name)
                      /\ Goto(t, "save")
                 ELSE Raise(t) /\ UNCHANGED known_face_names
              /\ UNCHANGED <<known_student_ids, known_face_encodings, files>>
           \/ /\ th.pc = "append_encoding"
              /\ known_face_encodings' = Append(known_face_encodings, th.embedding)
              /\ Goto(t, "append_name")
              /\ UNCHANGED <<known_student_ids, known_face_names, files>>
           \/ /\ th.pc = "append_name"
              /\ known_face_names' = Append(known_face_names, th.name)
              /\ Goto(t, "append_id")
              /\ UNCHANGED <<known_student_ids, known_face_encodings, files>>
           \/ /\ th.pc = "append_id"
              /\ known_student_ids' = Append(known_student_ids, th.student_id)
              /\ Goto(t, "save")
              /\ UNCHANGED <<known_face_names, known_face_encodings, files>>

\* delete_student from the membership test to the last pop
DeleteStep(t) ==
    LET th == threads[t]
    IN  /\ th.op = "delete"
        /\ \/ /\ th.pc = "start"
              /\ IF th.student_id \in Range(known_student_ids)
                 THEN Goto(t, "index")
                 ELSE Goto(t, "done")
              /\ UNCHANGED <<store, files>>
           \/ /\ th.pc = "index"
              /\ IF th.student_id \in Range(known_student_ids)
                 THEN threads' = [threads EXCEPT
                          ![t].idx = index(known_student_ids, th.student_id),
                          ![t].pc = "pop_id"]
                 ELSE Raise(t)
              /\ UNCHANGED <<store, files>>
           \/ /\ th.pc = "pop_id"
              /\ IF th.idx <= Len(known_student_ids)
                 THEN /\ known_student_ids' = pop(known_student_ids, th.idx)
                      /\ Goto(t, "pop_name")
                 ELSE Raise(t) /\ UNCHANGED known_student_ids
              /\ UNCHANGED <<known_face_names, known_face_encodings, files>>
           \/ /\ th.pc = "pop_name"
              /\ IF th.idx <= Len(known_face_names)
                 THEN /\ known_face_names' = pop(known_face_names, th.idx)
                      /\ Goto(t, "pop_encoding")
                 ELSE Raise(t) /\ UNCHANGED known_face_names
              /\ UNCHANGED <<known_student_ids, known_face_encodings, files>>
           \/ /\ th.pc = "pop_encoding"
              /\ IF th.idx <= Len(known_face_encodings)
                 THEN /\ known_face_encodings' = pop(known_face_encodings, th.idx)
                      /\ Goto(t, "save")
                 ELSE Raise(t) /\ UNCHANGED known_face_encodings
              /\ UNCHANGED <<known_student_ids, known_face_names, files>>

\* save_student_database as register_student and delete_student call it: the
\* file is opened, pickle.dump reads the three lists one after the other, the
\* summary is written, and the caller returns True.  When two threads write
\* the file at once it is taken to hold what the later dump wrote.
SaveStep(t) ==
    LET th == threads[t]
    IN  /\ th.op \in {"register", "delete"}
        /\ \/ /\ th.pc = "save"
              /\ threads' = [threads EXCEPT ![t].total = Len(known_face_encodings),
                                            ![t].pc = "dump_encodings"]
              /\ encodings_file' = Truncated
              /\ UNCHANGED <<store, metadata_file>>
           \/ /\ th.pc = "dump_encodings"
              /\ threads' = [threads EXCEPT ![t].encodings = known_face_encodings,
                                            ![t].pc = "dump_names"]
              /\ UNCHANGED <<store, files>>
           \/ /\ th.pc = "dump_names"
              /\ threads' = [threads EXCEPT ![t].names = known_face_names,
                                            ![t].pc = "dump_ids"]
              /\ UNCHANGED <<store, files>>
           \/ /\ th.pc = "dump_ids"
              /\ encodings_file' =
                    [state |-> "written", encodings |-> th.encodings,
                     names |-> th.names, student_ids |-> known_student_ids,
                     total_students |-> th.total]
              /\ Goto(t, "write_metadata")
              /\ UNCHANGED <<store, metadata_file>>
           \/ /\ th.pc = "write_metadata"
              /\ metadata_file' = metadata(known_student_ids, known_face_names,
                                           known_face_encodings)
              /\ threads' = [threads EXCEPT ![t].pc = "done", ![t].ret = TRUE]
              /\ UNCHANGED <<store, encodings_file>>

\* recognize_face: the emptiness test, the loop over known_face_encodings (a
\* list iterator: one element per step, until its position reaches the length
\* the list has then), the choice, and the reads of the id and the name
RecognizeStep(t) ==
    LET th == threads[t]
    IN  /\ th.op = "recognize"
        /\ \/ /\ th.pc = "start"
              /\ IF Len(known_face_encodings) = 0
                 THEN Goto(t, "done")
                 ELSE Goto(t, "loop")
           \/ /\ th.pc = "loop"
              /\ IF th.idx < Len(known_face_encodings)
                 THEN LET known_encoding == known_face_encodings[th.idx + 1]
                      IN  threads' = [threads EXCEPT
                            ![t].idx = th.idx + 1,
                            ![t].encodings = Append(th.encodings, known_encoding),
                            ![t].distances = Append(th.distances,
                                calculate_euclidean_distance(th.embedding, known_encoding)),
                            ![t].similarities = Append(th.similarities,
                                calculate_cosine_similarity(th.embedding, known_encoding))]
                 ELSE IF th.distances = <<>>
                 THEN Raise(t)
                 ELSE LET m == best_match(th.distances, th.similarities, th.threshold)
                      IN  IF m.accepted
                          THEN threads' = [threads EXCEPT ![t].idx = m.best_idx,
                                                          ![t].confidence = m.confidence,
                                                          ![t].pc = "read_id"]
                          ELSE Goto(t, "done")
           \/ /\ th.pc = "read_id"
              /\ IF th.idx <= Len(known_student_ids)
                 THEN threads' = [threads EXCEPT
                          ![t].match_id = known_student_ids[th.idx],
                          ![t].pc = "read_name"]
                 ELSE Raise(t)
           \/ /\ th.pc = "read_name"
              /\ IF th.idx <= Len(known_face_names)
                 THEN threads' = [threads EXCEPT
                          ![t].match_name = known_face_names[th.idx],
                          ![t].pc = "done", ![t].ret = TRUE]
                 ELSE Raise(t)
        /\ UNCHANGED <<store, files>>

InitConcurrent ==
    /\ known_student_ids = InitialIds
    /\ known_face_names = InitialNames
    /\ known_face_encodings = InitialEncodings
    /\ encodings_file = encodings_data(InitialIds, InitialNames, InitialEncodings)
    /\ metadata_file = metadata(InitialIds, InitialNames, InitialEncodings)
    /\ io_faults = 0
    /\ threads \in [Threads -> ConcurrentRequests]
    /\ last = Call("init", <<>>, <<>>, <<>>, TRUE, "loaded")

Registering == \E t \in Threads : RegisterStep(t) /\ UNCHANGED <<io_faults, last>>

Deleting == \E t \in Threads : DeleteStep(t) /\ UNCHANGED <<io_faults, last>>

Saving == \E t \in Threads : SaveStep(t) /\ UNCHANGED <<io_faults, last>>

Recognizing == \E t \in Threads : RecognizeStep(t) /\ UNCHANGED <<io_faults, last>>

NextConcurrent == Registering \/ Deleting \/ Saving \/ Recognizing

SpecConcurrent == InitConcurrent /\ [][NextConcurrent]_vars

----------------------------------------------------------------------------
(* FaceProcessor.process_image *)

\* An image sent for recognition, by what the validator, the decoder, the
\* detector and the embedder make of it: faces holds, for every face
\* detect_faces returns and in its order, the embedding get_face_embedding
\* gives it (NoEmbedding: None).
GroupImage(valid, decodable, faces) ==
    [valid |-> valid, decodable |-> decodable, faces |-> faces]

\* student_info once process_image has added the data of the detected face
\* (face: its position in detected_faces, which stands for its box, quality
\* and size)
Recognized(student_info, face) ==
    [student_id |-> student_info.student_id, name |-> student_info.name,
     confidence |-> student_info.confidence,
     similarity_score |-> student_info.similarity_score,
     distance_score |-> student_info.distance_score, face |-> face]

add_recognized_latest(recognized_students, entry) ==
    LET same == {j \in DOMAIN recognized_students :
                    recognized_students[j].student_id = entry.student_id}
    IN  IF same = {}
        THEN Append(recognized_students, entry)
        ELSE Append(pop(recognized_students, CHOOSE k \in same : \A l \in same : k <= l),
                    entry)

\* the duplicate rule of process_image: recognized_students once a match is
\* put to it
add_recognized(recognized_students, entry) ==
    LET same == {j \in DOMAIN recognized_students :
                    recognized_students[j].student_id = entry.student_id}
    IN  IF same = {}
        THEN Append(recognized_students, entry)
        ELSE LET existing_student == CHOOSE k \in same : \A l \in same : k <= l
             IN  IF QLess(recognized_students[existing_student].confidence,
                          entry.confidence)
                 THEN Append(pop(recognized_students, existing_student), entry)
                 ELSE recognized_students

\* the loop of process_image over detected_faces, from position k on
RECURSIVE recognize_faces(_, _, _, _)
recognize_faces(detected_faces, k, threshold, acc) ==
    IF k > Len(detected_faces)
    THEN acc
    ELSE LET embedding == detected_faces[k]
             r == recognize_face(embedding, threshold)
         IN  IF embedding = NoEmbedding
             THEN recognize_faces(detected_faces, k + 1, threshold, acc)
             ELSE IF r.found
             THEN recognize_faces(detected_faces, k + 1, threshold,
                      [acc EXCEPT !.recognized_students =
                          add_recognized(@, Recognized(r.student_info, k))])
             ELSE recognize_faces(detected_faces, k + 1, threshold,
                      [acc EXCEPT !.unregistered_faces = @ + 1])

process_image_counts_answers(image, confidence_threshold) ==
    IF ~image.valid
    THEN [success |-> FALSE, error |-> "Invalid image data",
          recognized_students |-> <<>>, faces_detected |-> 0, unregistered_faces |-> 0]
    ELSE IF ~image.decodable
    THEN [success |-> FALSE, error |-> "Failed to decode image",
          recognized_students |-> <<>>, faces_detected |-> 0, unregistered_faces |-> 0]
    ELSE LET acc == recognize_faces(image.faces, 1, confidence_threshold,
                        [recognized_students |-> <<>>, unregistered_faces |-> 0])
         IN  [success |-> TRUE, error |-> "",
              recognized_students |-> acc.recognized_students,
              faces_detected |-> Len(acc.recognized_students) + acc.unregistered_faces,
              unregistered_faces |-> acc.unregistered_faces]

\* FaceProcessor.process_image
process_image(image, confidence_threshold) ==
    IF ~image.valid
    THEN [success |-> FALSE, error |-> "Invalid image data",
          recognized_students |-> <<>>, faces_detected |-> 0, unregistered_faces |-> 0]
    ELSE IF ~image.decodable
    THEN [success |-> FALSE, error |-> "Failed to decode image",
          recognized_students |-> <<>>, faces_detected |-> 0, unregistered_faces |-> 0]
    ELSE LET acc == recognize_faces(image.faces, 1, confidence_threshold,
                        [recognized_students |-> <<>>, unregistered_faces |-> 0])
         IN  [success |-> TRUE, error |-> "",
              recognized_students |-> acc.recognized_students,
              faces_detected |-> Len(image.faces),
              unregistered_faces |-> acc.unregistered_faces]

----------------------------------------------------------------------------
(* FaceProcessor._calculate_face_quality *)

\* A face crop, by what the function measures of it: the number of channels,
\* width and height, the gray levels of its pixels (one half dark, one half
\* light, so that the mean is (dark + light)/2 and the standard deviation
\* (light - dark)/2) and the variance of its Laplacian.
FaceCrop(channels, width, height, dark, light, laplacian_var) ==
    [channels |-> channels, width |-> width, height |-> height,
     dark |-> dark, light |-> light, laplacian_var |-> laplacian_var]

Max(a, b) == IF a > b THEN a ELSE b

sharpness_score_unclamped(laplacian_var) == Q(laplacian_var, 1000)

\* min(laplacian_var / 1000, 1.0)
sharpness_score(laplacian_var) == QMin(Q(laplacian_var, 1000), One)

\* 1.0 - abs(np.mean(gray) / 255.0 - 0.5) * 2
brightness_score(gray_mean) ==
    QSub(One, QMul(QAbs(QSub(QDiv(gray_mean, Q(255, 1)), Q(1, 2))), Q(2, 1)))

\* min(gray.std() / 128.0, 1.0)
contrast_score(gray_std) == QMin(QDiv(gray_std, Q(128, 1)), One)

\* the size score of a crop of the given width and height
size_score(width, height) ==
    IF width < 100 \/ height < 100
    THEN Q(Min(width, height), 100)
    ELSE IF width > 300 \/ height > 300
    THEN Q(300, Max(width, height))
    ELSE One

\* FaceProcessor._calculate_face_quality: the value returned, the four
\* sub-scores, and whether the except clause was reached.  cv2.cvtColor raises
\* on an empty crop and on one that has not three channels.
calculate_face_quality(face_img) ==
    IF face_img.channels # 3 \/ face_img.width = 0 \/ face_img.height = 0
    THEN [quality |-> Q(1, 2), failed |-> TRUE, sharpness_score |-> Zero,
          brightness_score |-> Zero, contrast_score |-> Zero, size_score |-> Zero]
    ELSE LET sharpness == sharpness_score(face_img.laplacian_var)
             brightness == brightness_score(Q(face_img.dark + face_img.light, 2))
             contrast == contrast_score(Q(face_img.light - face_img.dark, 2))
             size == size_score(face_img.width, face_img.height)
             quality == QAdd(QAdd(QMul(sharpness, Q(4, 10)), QMul(brightness, Q(3, 10))),
                             QAdd(QMul(contrast, Q(2, 10)), QMul(size, Q(1, 10))))
         IN  [quality |-> QMin(quality, One), failed |-> FALSE,
              sharpness_score |-> sharpness, brightness_score |-> brightness,
              contrast_score |-> contrast, size_score |-> size]

----------------------------------------------------------------------------
(* FaceProcessor.detect_faces *)

\* One detection of the MTCNN detector: its confidence, its box (x, y, w, h)
\* as the detector reports it, and what _calculate_face_quality measures of
\* the pixels under the box (dark level, light level, Laplacian variance).
Detection(confidence, x, y, w, h, pixels) ==
    [confidence |-> confidence, box |-> <<x, y, w, h>>, pixels |-> pixels]

\* a detection is kept when its confidence is above this
MinDetectionConfidence == Q(95, 100)

\* and when both sides of its box, once clamped, are longer than this
MinFaceSide == 60

clamp_box_keeps_size(box, width, height) ==
    <<Max(0, box[1]), Max(0, box[2]), box[3], box[4]>>

\* the box of a detection once its coordinates are brought into the image
clamp_box(box, width, height) ==
    LET x == Max(0, box[1])
        y == Max(0, box[2])
        w == Min(box[3], width - x)
        h == Min(box[4], height - y)
    IN  <<x, y, w, h>>

\* the loop of detect_faces over the detections, from position i on: the
\* faces appended, each with the position of its detection (which stands for
\* its crop and landmarks)
RECURSIVE candidate_faces(_, _, _, _)
candidate_faces(detections, i, width, height) ==
    IF i > Len(detections)
    THEN <<>>
    ELSE LET detection == detections[i]
             box == clamp_box(detection.box, width, height)
             rest == candidate_faces(detections, i + 1, width, height)
         IN  IF ~QLess(MinDetectionConfidence, detection.confidence)
             THEN rest
             ELSE IF box[3] > MinFaceSide /\ box[4] > MinFaceSide
             THEN << [box |-> box, confidence |-> detection.confidence,
                      quality |-> calculate_face_quality(
                                      FaceCrop(3, box[3], box[4], detection.pixels[1],
                                               detection.pixels[2],
                                               detection.pixels[3])).quality,
                      size |-> <<box[3], box[4]>>, detection |-> i] >> \o rest
             ELSE rest

\* the sort key of detect_faces
face_key(f) == QMul(f.confidence, f.quality)

insert_face_before_equals(sorted, f) ==
    LET before == {j \in DOMAIN sorted : QLess(face_key(f), face_key(sorted[j]))}
    IN  SubSeq(sorted, 1, Cardinality(before)) \o <<f>>
            \o SubSeq(sorted, Cardinality(before) + 1, Len(sorted))

\* list.sort(key, reverse=True) puts an element behind those of a greater or
\* an equal key that come before it in the list
insert_face(sorted, f) ==
    LET before == {j \in DOMAIN sorted : ~QLess(face_key(sorted[j]), face_key(f))}
    IN  SubSeq(sorted, 1, Cardinality(before)) \o <<f>>
            \o SubSeq(sorted, Cardinality(before) + 1, Len(sorted))

\* faces.sort(key=lambda x: x['confidence'] * x['quality'], reverse=True)
RECURSIVE sort_faces(_)
sort_faces(faces) ==
    IF faces = <<>>
    THEN <<>>
    ELSE insert_face(sort_faces(SubSeq(faces, 1, Len(faces) - 1)), faces[Len(faces)])

\* FaceProcessor.detect_faces of an image of the given width and height on
\* which the detector reports `detections`; cv2.cvtColor raises on an empty
\* image and the except clause returns the empty list
detect_faces(image, detections) ==
    IF image.width = 0 \/ image.height = 0
    THEN <<>>
    ELSE sort_faces(candidate_faces(detections, 1, image.width, image.height))

----------------------------------------------------------------------------
(* Single calls on a store that enrolments have filled: validation,
   recognition and quality scoring.  The file system does not fail here. *)

IdLen5 == <<"m", "i", "t", "0", "1">>
IdLen6 == <<"m", "i", "t", "0", "0", "1">>
IdLen15 == <<"m", "i", "t", "2", "0", "2", "5", "0", "0", "0", "0", "0", "0", "0", "1">>
IdLen16 == Append(IdLen15, "6")

Padded(s) == <<" ">> \o s \o <<"\t">>

\* student ids around the two limits of validate_student_id, bare and inside
\* whitespace, and ids of nothing but whitespace
BoundaryIds ==
    { <<>>, <<" ", " ", " ", " ", " ", " ">>,
      IdLen5, Padded(IdLen5), IdLen6, IdLen15, Padded(IdLen15), IdLen16 }

\* the enrolments that fill the store: one of each stored embedding, one under
\* a name of whitespace, and one that is refused
CallEnrolments ==
    { [name |-> Al, face_images |-> <<"faceA", "faceA">>],
      [name |-> Bo, face_images |-> <<"faceB", "blank", "faceA">>],
      [name |-> Blank, face_images |-> <<"faceA", "faceA">>],
      [name |-> Al, face_images |-> <<"faceA">>] }

\* the embeddings put to recognize_face: the stored ones, a unit vector apart
\* from them, the opposite unit vector, a short vector and a long one
QueryEmbeddings ==
    { EmbU, EmbZ, EmbV, Rational(-3, -4, 5), Rational(3, 4, 50), Rational(3, 4, 1) }

\* thresholds validate_confidence_score lets through
Thresholds == { Q(0, 1), Q(1, 10), Q(3, 5), Q(9, 10), Q(1, 1) }

\* images with no face, with several faces of one student in either order of
\* confidence, with faces of equal confidence, with faces of two students, a
\* face without embedding and a stranger; an invalid one and an undecodable one
GroupImages ==
    { GroupImage(FALSE, FALSE, <<>>),
      GroupImage(TRUE, FALSE, <<>>),
      GroupImage(TRUE, TRUE, <<>>),
      GroupImage(TRUE, TRUE, <<EmbV, EmbU>>),
      GroupImage(TRUE, TRUE, <<EmbU, EmbV>>),
      GroupImage(TRUE, TRUE, <<EmbU, Rational(3, 4, 1), EmbV>>),
      GroupImage(TRUE, TRUE, <<EmbV, NoEmbedding, EmbZ, EmbU>>),
      GroupImage(TRUE, TRUE, <<Rational(-3, -4, 5), Rational(3, 4, 50)>>) }

ImageThresholds == { Q(3, 5), Q(9, 10) }

\* width and height of a crop
CropSizes == { <<0, 50>>, <<50, 80>>, <<100, 100>>, <<200, 300>>, <<400, 250>>, <<80, 400>> }

\* dark level, light level and Laplacian variance of a crop: uniform crops
\* (their Laplacian is 0 everywhere) and crops of two levels
CropPixels ==
    { <<0, 0, 0>>, <<128, 128, 0>>, <<255, 255, 0>>,
      <<0, 255, 250>>, <<0, 255, 4000>>, <<100, 200, 0>>, <<100, 200, 1000>> }

FaceCrops ==
    { FaceCrop(3, sz[1], sz[2], px[1], px[2], px[3]) : sz \in CropSizes, px \in CropPixels }
        \cup { FaceCrop(1, 100, 100, 128, 128, 0) }

\* the images put to detect_faces: one of 200 by 150 pixels, an empty one
RawImages == { [width |-> 200, height |-> 150], [width |-> 0, height |-> 0] }

\* pixels of levels 89 and 217 (brightness score 4/5, contrast score 1/2), with
\* a Laplacian variance of 1000 and of 250
SharpPixels == <<89, 217, 1000>>
SoftPixels == <<89, 217, 250>>

\* detections inside the image at each confidence around the limit, a box
\* that starts left of the image, one above it, one that runs over the right
\* edge and stays wide enough, one that does not, one that starts right of
\* the image, and boxes of 60 and 61 pixels
InsideSharp == Detection(Q(99, 100), 20, 20, 100, 100, SharpPixels)
InsideSoft == Detection(Q(99, 100), 30, 40, 100, 100, SoftPixels)
InsideSharpTwin == Detection(Q(99, 100), 90, 30, 100, 100, SharpPixels)
AtLimit == Detection(Q(95, 100), 20, 20, 100, 100, SharpPixels)
AboveLimit == Detection(Q(96, 100), 20, 20, 100, 100, SharpPixels)
LeftOfImage == Detection(Q(99, 100), -10, 20, 100, 100, SharpPixels)
AboveImage == Detection(Q(97, 100), 20, -30, 70, 200, SoftPixels)
OverRightEdge == Detection(Q(98, 100), 120, 20, 100, 100, SharpPixels)
OverRightEdgeNarrow == Detection(Q(98, 100), 150, 50, 100, 80, SharpPixels)
RightOfImage == Detection(Q(99, 100), 250, 10, 100, 100, SharpPixels)
Side60 == Detection(Q(99, 100), 10, 10, 60, 60, SharpPixels)
Side61 == Detection(Q(1, 1), 10, 10, 61, 61, SoftPixels)

\* what the detector may report on an image, in its order
DetectorOutputs ==
    { <<>>,
      <<AtLimit, AboveLimit>>,
      <<InsideSoft, InsideSharp, InsideSharpTwin>>,
      <<InsideSharpTwin, InsideSoft, InsideSharp>>,
      <<LeftOfImage, AboveImage, OverRightEdge>>,
      <<OverRightEdgeNarrow, RightOfImage, OverRightEdge, LeftOfImage>>,
      <<Side60, Side61, InsideSoft, Side61>>,
      <<AboveImage, InsideSharp, AboveLimit, InsideSharp>> }

DetectFaces ==
    \E image \in RawImages, detections \in DetectorOutputs :
      /\ last' = [op |-> "detect_faces", image |-> image, detections |-> detections,
                  result |-> detect_faces(image, detections)]
      /\ UNCHANGED <<store, files, io_faults>>

\* ValidationUtils.validate_student_id, called on its own
Validate ==
    \E student_id \in BoundaryIds :
      /\ last' = [op |-> "validate", student_id |-> student_id,
                  ret |-> validate_student_id(student_id)]
      /\ UNCHANGED <<store, files, io_faults>>

Enrol ==
    \E student_id \in BoundaryIds, e \in CallEnrolments :
      register_student(student_id, e.name, e.face_images)

Recognize ==
    \E face_embedding \in QueryEmbeddings, threshold \in Thresholds :
      /\ last' = [op |-> "recognize", face_embedding |-> face_embedding,
                  threshold |-> threshold,
                  result |-> recognize_face(face_embedding, threshold)]
      /\ UNCHANGED <<store, files, io_faults>>

ProcessImage ==
    \E image \in GroupImages, confidence_threshold \in ImageThresholds :
      /\ last' = [op |-> "process_image", image |-> image,
                  threshold |-> confidence_threshold,
                  result |-> process_image(image, confidence_threshold)]
      /\ UNCHANGED <<store, files, io_faults>>

Quality ==
    \E face_img \in FaceCrops :
      /\ last' = [op |-> "quality", face_img |-> face_img,
                  result |-> calculate_face_quality(face_img)]
      /\ UNCHANGED <<store, files, io_faults>>

InitCalls ==
    /\ known_student_ids = <<>>
    /\ known_face_names = <<>>
    /\ known_face_encodings = <<>>
    /\ encodings_file = Absent
    /\ metadata_file = NoMetadata
    /\ io_faults = MaxFaults
    /\ threads = <<>>
    /\ last = Call("init", <<>>, <<>>, <<>>, TRUE, "no_file")

NextCalls ==
    (Validate \/ Enrol \/ Recognize \/ ProcessImage \/ Quality \/ DetectFaces)
        /\ UNCHANGED threads

SpecCalls == InitCalls /\ [][NextCalls]_vars

----------------------------------------------------------------------------
(* What the claims speak of, computed from the arguments of the call *)

\* an image that yields an embedding
Usable(img) == decodes(img) /\ has_face(img) /\ get_face_embedding(img) # NoEmbedding

\* the embeddings of the usable images, in order
UsableEmbeddings(face_images) ==
    LET usable == SelectSeq(face_images, Usable)
    IN  [i \in 1..Len(usable) |-> get_face_embedding(usable[i])]

\* the call is one that enrolment must refuse
Rejected(c) ==
    \/ ~validate_student_id(c.student_id)
    \/ c.name = <<>>
    \/ Len(c.face_images) < 2
    \/ Len(UsableEmbeddings(c.face_images)) < 2

Enrols(c) == c.op = "register" /\ ~Rejected(c)

Key(student_id) == upper(strip(student_id))

\* the three lists an accepted enrolment c must leave, from the lists before it
ExpectedAfterEnrol(c) ==
    LET key == Key(c.student_id)
        name == strip(c.name)
        emb == normalize_vector(mean(UsableEmbeddings(c.face_images)))
    IN  IF key \in Range(known_student_ids)
        THEN << known_student_ids,
                [i \in DOMAIN known_face_names |->
                    IF known_student_ids[i] = key THEN name ELSE known_face_names[i]],
                [i \in DOMAIN known_face_encodings |->
                    IF known_student_ids[i] = key THEN emb ELSE known_face_encodings[i]] >>
        ELSE << Append(known_student_ids, key), Append(known_face_names, name),
                Append(known_face_encodings, emb) >>

Snapshot == encodings_data(known_student_ids, known_face_names, known_face_encodings)

Summary == metadata(known_student_ids, known_face_names, known_face_encodings)

----------------------------------------------------------------------------
(* Claims on the store, one call at a time (Spec) *)

\* C1: between any two of register_student, delete_student,
\* save_student_database and load_student_database, whether they succeeded or
\* failed, the three lists have the same length.
C1_ListsSameLength ==
    /\ Len(known_student_ids) = Len(known_face_names)
    /\ Len(known_face_names) = Len(known_face_encodings)

\* a delete whose save failed has left one of two records
C1_Witness ==
    /\ last.op = "delete" /\ last.why = "removed" /\ ~last.ret
    /\ Len(known_student_ids) = 1

\* C2: the store holds at most one record per normalized student id: no two
\* positions hold ids that are equal after trim and uppercase.
C2_OneRecordPerKey ==
    \A i, j \in DOMAIN known_student_ids :
        i # j => Key(known_student_ids[i]) # Key(known_student_ids[j])

\* an id that differs from its key in case and whitespace was enrolled into
\* the record its key already had, next to another record
C2_Witness ==
    /\ last.op = "register" /\ last.ret /\ last.why = "updated"
    /\ last.student_id # Key(last.student_id)
    /\ Len(known_student_ids) = 2

\* C5: register_student returns false and leaves the lists and both files as
\* they were when the id fails validation, the name is empty, fewer than 2
\* images are given or fewer than 2 images yield an embedding.
C5_RejectedEnrolChangesNothing ==
    [][(last'.op = "register" /\ Rejected(last'))
          => (~last'.ret /\ UNCHANGED <<store, files>>)]_vars

\* two images were sent with a valid id and name, one yielded an embedding,
\* and the store had a record
C5_Witness ==
    /\ last.op = "register"
    /\ validate_student_id(last.student_id) /\ last.name # <<>>
    /\ Len(last.face_images) >= 2
    /\ Len(UsableEmbeddings(last.face_images)) = 1
    /\ known_student_ids # <<>>

\* C6: enrolling an id whose key is in the store overwrites the name and the
\* embedding at the position of that key; the store keeps its size, every other
\* record keeps its position and contents, and get_registered_students has
\* exactly one entry for the key.
C6_ReEnrolOverwritesInPlace ==
    [][(Enrols(last') /\ Key(last'.student_id) \in Range(known_student_ids))
          => LET key == Key(last'.student_id)
                 emb == normalize_vector(mean(UsableEmbeddings(last'.face_images)))
             IN  /\ known_student_ids' = known_student_ids
                 /\ Len(known_face_names') = Len(known_face_names)
                 /\ Len(known_face_encodings') = Len(known_face_encodings)
                 /\ \A i \in DOMAIN known_student_ids :
                      IF known_student_ids[i] = key
                      THEN /\ known_face_names'[i] = strip(last'.name)
                           /\ known_face_encodings'[i] = emb
                      ELSE /\ known_face_names'[i] = known_face_names[i]
                           /\ known_face_encodings'[i] = known_face_encodings[i]
                 /\ Cardinality({i \in DOMAIN get_registered_students' :
                                   get_registered_students'[i].student_id = key}) = 1
       ]_vars

\* the first of two records was enrolled again
C6_Witness ==
    /\ Enrols(last) /\ last.why = "updated"
    /\ Len(known_student_ids) = 2
    /\ known_student_ids[1] = Key(last.student_id)

\* C7: delete_student of an id whose key is not in the store returns false
\* and leaves the lists and both files as they were.
C7_DeleteUnknownChangesNothing ==
    [][(last'.op = "delete" /\ Key(last'.student_id) \notin Range(known_student_ids))
          => (~last'.ret /\ UNCHANGED <<store, files>>)]_vars

\* a well-formed id that is not enrolled was deleted from a store with a record
C7_Witness ==
    /\ last.op = "delete" /\ ~last.ret
    /\ validate_student_id(last.student_id)
    /\ known_student_ids # <<>>
    /\ Key(last.student_id) \notin Range(known_student_ids)

\* C8: an accepted enrolment changes the lists whatever the save does, and
\* returns true only if the encodings file then holds the changed lists: after
\* a failed write it returns false and the lists keep the change.
C8_EnrolTrueOnlyIfSaved ==
    [][Enrols(last')
          => /\ store' = ExpectedAfterEnrol(last')
             /\ last'.ret => encodings_file' = Snapshot'
       ]_vars

\* an accepted enrolment returned false; the lists hold the new record and the
\* encodings file does not
C8_Witness ==
    /\ Enrols(last) /\ ~last.ret
    /\ Key(last.student_id) \in Range(known_student_ids)
    /\ encodings_file # Snapshot
    /\ encodings_file.state = "written"
    /\ Key(last.student_id) \notin Range(encodings_file.student_ids)

\* C9: the encodings file is replaced atomically: it is never left partial
\* or empty, whatever happens during save_student_database.
C9_SnapshotNeverPartial == encodings_file.state # "truncated"

\* C10: when save_student_database returns true, the encodings file and the
\* metadata summary both describe the lists in memory.
C10_SaveTrueMeansBothFilesCurrent ==
    (last.op = "save" /\ last.ret)
        => (encodings_file = Snapshot /\ metadata_file = Summary)

----------------------------------------------------------------------------
(* Claims on the store under concurrent requests (SpecConcurrent) *)

Done(t) == threads[t].pc = "done"

\* the record of thread t's enrolment is in the store, id, name and embedding
\* at one position
Stored(t) ==
    \E i \in DOMAIN known_student_ids :
        /\ known_student_ids[i] = threads[t].student_id
        /\ i \in DOMAIN known_face_names /\ known_face_names[i] = threads[t].name
        /\ i \in DOMAIN known_face_encodings
        /\ known_face_encodings[i] = threads[t].embedding

\* C3: when two concurrent register_student calls for different new ids have
\* both returned true, the store holds both records, each id at the position
\* of its own name and embedding.
C3_ConcurrentEnrolsBothStored ==
    \A t, u \in Threads :
        ( /\ t # u
          /\ threads[t].op = "register" /\ threads[u].op = "register"
          /\ threads[t].student_id # threads[u].student_id
          /\ threads[t].student_id \notin Range(InitialIds)
          /\ threads[u].student_id \notin Range(InitialIds)
          /\ Done(t) /\ Done(u) /\ threads[t].ret /\ threads[u].ret )
        => (Stored(t) /\ Stored(u))

\* the records the store holds at some time: those it starts with and those
\* the enrolments in flight put there
Records ==
    {[student_id |-> InitialIds[i], name |-> InitialNames[i],
      embedding |-> InitialEncodings[i]] : i \in DOMAIN InitialIds}
        \cup {[student_id |-> threads[t].student_id, name |-> threads[t].name,
               embedding |-> threads[t].embedding] :
                   t \in {u \in Threads : threads[u].op = "register"}}

\* C4: a match that runs beside a register_student or delete_student does
\* not fail, and the id and name it returns are those of the record whose
\* embedding it compared.
C4_MatchSeesWholeRecords ==
    \A t \in Threads :
        (threads[t].op = "recognize" /\ Done(t))
        => /\ ~threads[t].raised
           /\ threads[t].ret =>
                [student_id |-> threads[t].match_id, name |-> threads[t].match_name,
                 embedding |-> threads[t].encodings[threads[t].idx]] \in Records

----------------------------------------------------------------------------
(* Claims on what the store keeps (Spec) *)

\* the (student_id, name, embedding) triples of the store, in order
StoredTriples ==
    [i \in DOMAIN known_student_ids |->
        [student_id |-> known_student_ids[i], name |-> known_face_names[i],
         embedding |-> known_face_encodings[i]]]

\* the call ended with a successful save_student_database
Saved(c) == c.ret /\ c.op \in {"save", "register", "delete"}

\* the call was a load_student_database that succeeded, in the same process
\* or at the start of a new one
Loaded(c) == c.ret /\ c.op \in {"load", "init"}

\* C11: a load_student_database that follows a successful
\* save_student_database leaves the same (student_id, name, embedding)
\* triples in the same order, with equal embeddings.
C11_SaveThenLoadReproducesStore ==
    [][(Saved(last) /\ Loaded(last')) => StoredTriples' = StoredTriples]_vars

\* a new process has loaded two records from the snapshot
C11_Witness ==
    /\ last.op = "init" /\ last.why = "loaded"
    /\ Len(known_student_ids) = 2
    /\ encodings_file = Snapshot

\* C19: after a register_student that returned true, the embedding stored for
\* the id is the mean of the accepted sample embeddings divided by its norm,
\* and has length 1.
C19_StoredEmbeddingIsUnitMean ==
    [][(Enrols(last') /\ last'.ret) =>
          LET m == mean(UsableEmbeddings(last'.face_images))
              e == known_face_encodings'[index(known_student_ids', Key(last'.student_id))]
          IN  /\ norm(e) = One
              /\ e = Rational(m.x * norm(m).den, m.y * norm(m).den, m.den * norm(m).num)]_vars

----------------------------------------------------------------------------
(* Claims on single calls (SpecCalls) *)

\* C12: every record of the store has a non-empty name, whatever names
\* register_student was called with, names of whitespace included.
C12_StoredNamesNonEmpty ==
    \A i \in DOMAIN known_face_names : known_face_names[i] # <<>>

\* C13: validate_student_id accepts a string exactly when its trimmed,
\* uppercased form is 6 to 15 characters long, and every id in the store is
\* in that form.
C13_ValidIdsAreSixToFifteen ==
    /\ last.op = "validate" =>
          (last.ret <=> Len(upper(strip(last.student_id))) \in 6..15)
    /\ \A i \in DOMAIN known_student_ids :
          /\ known_student_ids[i] = upper(strip(known_student_ids[i]))
          /\ Len(known_student_ids[i]) \in 6..15

\* an id of 16 characters was refused while the store holds one of 15 that
\* was sent inside whitespace or bare
C13_Witness ==
    /\ last.op = "validate" /\ Len(last.student_id) = 16 /\ ~last.ret
    /\ \E i \in DOMAIN known_student_ids : Len(known_student_ids[i]) = 15

\* C14: with no student registered, recognize_face returns (None, 1.0) for
\* every embedding and every threshold.
C14_EmptyRegistryNoMatch ==
    (last.op = "recognize" /\ known_face_encodings = <<>>)
        => (~last.result.found /\ last.result.distance = One)

\* the all-zero embedding was put to an empty registry at threshold 1
C14_Witness ==
    /\ last.op = "recognize" /\ known_face_encodings = <<>>
    /\ last.face_embedding = EmbZ /\ last.threshold = One

\* the distances and similarities of an embedding to the stored ones, and
\* the least and the greatest of a non-empty sequence of numbers
DistancesTo(q) ==
    [i \in DOMAIN known_face_encodings |->
        calculate_euclidean_distance(q, known_face_encodings[i])]

SimilaritiesTo(q) ==
    [i \in DOMAIN known_face_encodings |->
        LET e == known_face_encodings[i]
        IN  IF norm(q) = Zero \/ norm(e) = Zero
            THEN Zero
            ELSE QDiv(dot(q, e), QMul(norm(q), norm(e)))]

Least(qs) == CHOOSE q \in Range(qs) : \A r \in Range(qs) : QLeq(q, r)

Greatest(qs) == CHOOSE q \in Range(qs) : \A r \in Range(qs) : QLeq(r, q)

\* the answer names the record at position i and carries its scores
Answers(r, i, distances, similarities) ==
    /\ r.found
    /\ r.student_info.student_id = known_student_ids[i]
    /\ r.student_info.name = known_face_names[i]
    /\ r.student_info.similarity_score = similarities[i]
    /\ r.student_info.distance_score = distances[i]
    /\ r.distance = distances[i]

\* C15: with students registered, recognize_face accepts a record of greatest
\* similarity, with that similarity as confidence, when it exceeds
\* 1 - threshold; else a record of least distance, with confidence
\* 1 - distance/threshold, when that distance is below threshold; else it
\* returns (None, least distance).  The distance returned and the scores
\* reported are those of the accepted record.
C15_DecisionOrder ==
    (last.op = "recognize" /\ known_face_encodings # <<>>) =>
        LET r == last.result
            distances == DistancesTo(last.face_embedding)
            similarities == SimilaritiesTo(last.face_embedding)
            min_distance == Least(distances)
            max_similarity == Greatest(similarities)
        IN  IF QLess(QSub(One, last.threshold), max_similarity)
            THEN /\ r.best_idx \in DOMAIN known_student_ids
                 /\ similarities[r.best_idx] = max_similarity
                 /\ r.student_info.confidence = max_similarity
                 /\ Answers(r, r.best_idx, distances, similarities)
            ELSE IF QLess(min_distance, last.threshold)
            THEN /\ r.best_idx \in DOMAIN known_student_ids
                 /\ distances[r.best_idx] = min_distance
                 /\ r.student_info.confidence =
                        QSub(One, QDiv(min_distance, last.threshold))
                 /\ Answers(r, r.best_idx, distances, similarities)
            ELSE ~r.found /\ r.distance = min_distance

\* the record accepted for its similarity is not the nearest one
C15_Witness ==
    /\ last.op = "recognize" /\ last.result.found
    /\ last.result.branch = "similarity"
    /\ QLess(Least(DistancesTo(last.face_embedding)), last.result.distance)

C17_IdenticalEmbeddingMatches ==
    (last.op = "recognize" /\ QLeq(Q(1, 10), last.threshold)
                           /\ QLeq(last.threshold, Q(9, 10))) =>
        \A i \in DOMAIN known_face_encodings :
            known_face_encodings[i] = last.face_embedding =>
                /\ last.result.found
                /\ last.result.student_info.student_id = known_student_ids[i]
                /\ last.result.distance = Zero
                /\ last.result.student_info.similarity_score = One

\* the matches of the faces of an image, in the order of the faces
RECURSIVE Matches(_, _, _)
Matches(faces, k, threshold) ==
    IF k > Len(faces)
    THEN <<>>
    ELSE LET r == recognize_face(faces[k], threshold)
             rest == Matches(faces, k + 1, threshold)
         IN  IF faces[k] # NoEmbedding /\ r.found
             THEN <<Recognized(r.student_info, k)>> \o rest
             ELSE rest

\* C18: recognized_students of process_image holds each student_id at most
\* once, and the entry kept for an id is the first of the matches of that id
\* that have the highest confidence.
C18_OneEntryPerStudentBestKept ==
    (last.op = "process_image" /\ last.result.success) =>
        LET rs == last.result.recognized_students
            ms == Matches(last.image.faces, 1, last.threshold)
        IN  /\ \A i, j \in DOMAIN rs : i # j => rs[i].student_id # rs[j].student_id
            /\ Range(rs) \subseteq Range(ms)
            /\ \A m \in Range(ms) :
                 \E e \in Range(rs) :
                    /\ e.student_id = m.student_id
                    /\ QLeq(m.confidence, e.confidence)
                    /\ m.confidence = e.confidence => e.face <= m.face

\* a later face of higher confidence has replaced an earlier one of the student
C18_Witness ==
    /\ last.op = "process_image" /\ last.result.success
    /\ \E e \in Range(last.result.recognized_students) :
         \E m \in Range(Matches(last.image.faces, 1, last.threshold)) :
            /\ m.student_id = e.student_id /\ m.face < e.face
            /\ QLess(m.confidence, e.confidence)

\* C20: _calculate_face_quality returns a value in [0,1]; when nothing fails
\* inside it the value is 0.4 sharpness + 0.3 brightness + 0.2 contrast +
\* 0.1 size of sub-scores in [0,1], and when something fails it is 0.5.
InUnitInterval(q) == QLeq(Zero, q) /\ QLeq(q, One)

C20_QualityInUnitInterval ==
    last.op = "quality" =>
        LET r == last.result
        IN  /\ InUnitInterval(r.quality)
            /\ r.failed => r.quality = Q(1, 2)
            /\ ~r.failed =>
                 /\ InUnitInterval(r.sharpness_score)
                 /\ InUnitInterval(r.brightness_score)
                 /\ InUnitInterval(r.contrast_score)
                 /\ InUnitInterval(r.size_score)
                 /\ QMul(r.quality, Q(10, 1)) =
                        QAdd(QAdd(QMul(r.sharpness_score, Q(4, 1)),
                                  QMul(r.brightness_score, Q(3, 1))),
                             QAdd(QMul(r.contrast_score, Q(2, 1)), r.size_score))

\* a sharp crop of full contrast whose Laplacian variance is above 1000
C20_Witness ==
    /\ last.op = "quality" /\ ~last.result.failed
    /\ last.face_img.laplacian_var > 1000
    /\ last.result.sharpness_score = One

----------------------------------------------------------------------------
(* Claims on detection and on the faces of one image (SpecCalls) *)

\* C21: every candidate detect_faces returns has a detector confidence above
\* 0.95 and a box (x, y, w, h) inside the image, x >= 0, y >= 0,
\* x + w <= width, y + h <= height, with w > 60 and h > 60, whatever boxes the
\* detector reported.
C21_CandidatesInsideImage ==
    last.op = "detect_faces" =>
        \A i \in DOMAIN last.result :
            LET f == last.result[i]
            IN  /\ QLess(Q(95, 100), f.confidence)
                /\ f.box[1] >= 0 /\ f.box[2] >= 0
                /\ f.box[1] + f.box[3] <= last.image.width
                /\ f.box[2] + f.box[4] <= last.image.height
                /\ f.box[3] > 60 /\ f.box[4] > 60

\* a box that started left of the image and one that ran over its right edge
\* were returned
C21_Witness ==
    /\ last.op = "detect_faces"
    /\ \E i, j \in DOMAIN last.result :
         /\ last.detections[last.result[i].detection].box[1] < 0
         /\ last.detections[last.result[j].detection].box[1]
              + last.detections[last.result[j].detection].box[3] > last.image.width

\* C22: the candidates detect_faces returns are in non-increasing order of
\* confidence * quality, and candidates of equal product are in the order in
\* which the detector reported them.
C22_SortedStable ==
    last.op = "detect_faces" =>
        \A i, j \in DOMAIN last.result :
            i < j =>
                LET ki == QMul(last.result[i].confidence, last.result[i].quality)
                    kj == QMul(last.result[j].confidence, last.result[j].quality)
                IN  /\ QLeq(kj, ki)
                    /\ ki = kj => last.result[i].detection < last.result[j].detection

\* two candidates of equal product were returned behind one the detector
\* reported after them
C22_Witness ==
    /\ last.op = "detect_faces"
    /\ \E i, j, k \in DOMAIN last.result :
         /\ i < j /\ j < k
         /\ last.result[i].detection > last.result[j].detection
         /\ QMul(last.result[j].confidence, last.result[j].quality)
              = QMul(last.result[k].confidence, last.result[k].quality)

\* the faces of an image for which no embedding could be extracted
Failed(faces) == {k \in DOMAIN faces : faces[k] = NoEmbedding}

\* C23: process_image goes on after a face whose embedding extraction failed,
\* and faces_detected is the number of faces matched to a student (before
\* duplicates are dropped) plus unregistered_faces plus the number of faces
\* whose extraction failed.
C23_FailedExtractionSkipped ==
    (last.op = "process_image" /\ last.result.success) =>
        LET ms == Matches(last.image.faces, 1, last.threshold)
        IN  /\ last.result.faces_detected =
                  Len(ms) + last.result.unregistered_faces
                      + Cardinality(Failed(last.image.faces))
            /\ last.result.faces_detected = Len(last.image.faces)
            /\ \A m \in Range(ms) :
                 \E e \in Range(last.result.recognized_students) :
                    e.student_id = m.student_id

\* a face behind one whose extraction failed was matched and is in the answer
C23_Witness ==
    /\ last.op = "process_image" /\ last.result.success
    /\ \E k \in Failed(last.image.faces) :
         \E e \in Range(last.result.recognized_students) : e.face > k

----------------------------------------------------------------------------
(* Claims on deletion and on the durable snapshot (Spec) *)

\* C24: when delete_student returns false the lists in memory are as they
\* were before the call.
C24_DeleteFalseChangesNothing ==
    [][(last'.op = "delete" /\ ~last'.ret) => UNCHANGED store]_vars

\* the student ids a snapshot file holds
InSnapshot(file) == IF file.state = "written" THEN Range(file.student_ids) ELSE {}

\* C25: a student id that is in the snapshot file stays in it through every
\* call, of whatever outcome, but a delete_student of that id that returned
\* true.
C25_SnapshotKeepsIdentities ==
    [][\A id \in InSnapshot(encodings_file) :
          \/ id \in InSnapshot(encodings_file')
          \/ /\ last'.op = "delete" /\ last'.ret
             /\ Key(last'.student_id) = id]_vars

====
